---- MODULE Spec2Model ----
(***************************************************************************)
(* Authentication proxy of models/auth-proxy.py: create_auth_proxy builds  *)
(* the credential set, verify_api_key checks the Authorization header, and *)
(* proxy forwards a request to the backend and relays the response, either *)
(* as a stream or buffered (with the reasoning filter applied to JSON).    *)
(*                                                                         *)
(* Strings and byte strings are sequences of one-character strings, so     *)
(* that prefixes, slices and pattern matches are computed on characters.   *)
(***************************************************************************)
EXTENDS Integers, Sequences, FiniteSets, TLC

\* ------------------------------------------------------------------ bounds
\* Longest token (the part after the scheme prefix) of a probed header.
MaxTok == 2

\* ----------------------------------------------------------------- strings
EmptyStr == <<>>

\* Python's truthiness of a str or a list: non-empty.
Truthy(s) == Len(s) > 0

\* str.startswith(prefix)
StartsWith(s, prefix) ==
    /\ Len(s) >= Len(prefix)
    /\ SubSeq(s, 1, Len(prefix)) = prefix

\* s[n:]
SliceFrom(s, n) == SubSeq(s, n + 1, Len(s))

\* All sequences over S of length at most n.
SeqsUpTo(S, n) == UNION {[1..k -> S] : k \in 0..n}

\* The Optional values of Python: None, or a value.
None == [some |-> FALSE, val |-> <<>>]
Some(v) == [some |-> TRUE, val |-> v]

\* ------------------------------------------------------ create_auth_proxy
\* "Bearer " (line 59) and the length of it that line 62 slices off.
BearerPrefix == <<"B", "e", "a", "r", "e", "r", " ">>
BearerPrefixLen == 7

\* A plausible slip: `if api_key is not None`, which takes "" for a key.
BuildValidKeys_NotNone(api_key, api_keys) ==
    (IF api_key.some THEN {api_key.val} ELSE {})
    \cup
    (IF api_keys.some
        THEN {api_keys.val[i] : i \in 1..Len(api_keys.val)}
        ELSE {})

\* Lines 46-50: the set of valid keys from api_key and api_keys.
BuildValidKeys(api_key, api_keys) ==
    (IF api_key.some /\ Truthy(api_key.val) THEN {api_key.val} ELSE {})
    \cup
    (IF api_keys.some /\ Truthy(api_keys.val)
        THEN {api_keys.val[i] : i \in 1..Len(api_keys.val)}
        ELSE {})

\* ------------------------------------------------------------ request headers
\* Inbound headers are a sequence of <<name, value>> pairs; the server layer
\* has lower-cased the names. headers.get(name, default) is the first value.
HeaderIdx(headers, name) == {i \in 1..Len(headers) : headers[i][1] = name}

Min(S) == CHOOSE x \in S : \A y \in S : x <= y

HeadersGet(headers, name, default) ==
    IF HeaderIdx(headers, name) = {}
        THEN default
        ELSE headers[Min(HeaderIdx(headers, name))][2]

\* ---------------------------------------------------------- verify_api_key
\* A plausible slip: the scheme compared without regard to case.
Lower(c) == IF c = "B" THEN "b" ELSE c
LowerStr(s) == [i \in 1..Len(s) |-> Lower(s[i])]
verify_api_key_nocase(keys, headers) ==
    IF keys = {} THEN TRUE
    ELSE LET auth_header == HeadersGet(headers, "authorization", EmptyStr)
         IN  /\ StartsWith(LowerStr(auth_header), LowerStr(BearerPrefix))
             /\ SliceFrom(auth_header, BearerPrefixLen) \in keys

\* Lines 52-63.
verify_api_key(keys, headers) ==
    IF keys = {} THEN TRUE
    ELSE LET auth_header == HeadersGet(headers, "authorization", EmptyStr)
         IN  /\ StartsWith(auth_header, BearerPrefix)
             /\ SliceFrom(auth_header, BearerPrefixLen) \in keys

\* ---------------------------------------------------------- think-tag regex
\* The literals of the pattern r'<think>.*?</think>\s*' (line 131).
OpenTag == <<"<", "t", "h", "i", "n", "k", ">">>
CloseTag == <<"<", "/", "t", "h", "i", "n", "k", ">">>

\* \s, and the characters str.strip() removes.
IsSpace(c) == c \in {" ", "\n"}

\* The literal pat matches in s at index i.
MatchAt(s, i, pat) ==
    /\ i >= 1
    /\ i + Len(pat) - 1 <= Len(s)
    /\ s[i] = pat[1]
    /\ SubSeq(s, i, i + Len(pat) - 1) = pat

\* \s* from index i: the first index at or after i that holds no whitespace.
RECURSIVE SkipSpace(_, _)
SkipSpace(s, i) ==
    IF i <= Len(s) /\ IsSpace(s[i]) THEN SkipSpace(s, i + 1) ELSE i

\* The occurrences of a literal in s at or after index p.
Occurrences(s, p, pat) == {i \in p..Len(s) : MatchAt(s, i, pat)}

\* Where </think> can close a block opened at a: with re.DOTALL the dot
\* matches every character, so any later occurrence.
CloseCandidates(s, a) == Occurrences(s, a + Len(OpenTag), CloseTag)

\* The start positions at or after p where the whole pattern matches.
MatchStarts(s, p) ==
    LET closes == Occurrences(s, p, CloseTag)
    IN  {a \in Occurrences(s, p, OpenTag) :
            \E c \in closes : c >= a + Len(OpenTag)}

\* A plausible slip: the greedy .* , which runs to the last closing tag.
CloseOf_Greedy(s, a) ==
    CHOOSE c \in CloseCandidates(s, a) :
        \A d \in CloseCandidates(s, a) : d <= c

\* .*? is lazy: the first closing tag ends the block.
CloseOf(s, a) == Min(CloseCandidates(s, a))

\* re.sub(pattern, '', s): leftmost non-overlapping matches are deleted; the
\* scan resumes at the end of each match.
RECURSIVE ReSubFrom(_, _)
ReSubFrom(s, p) ==
    IF MatchStarts(s, p) = {}
        THEN SubSeq(s, p, Len(s))
        ELSE LET a == Min(MatchStarts(s, p))
                 e == SkipSpace(s, CloseOf(s, a) + Len(CloseTag))
             IN  SubSeq(s, p, a - 1) \o ReSubFrom(s, e)

ReSub(s) == ReSubFrom(s, 1)

\* str.strip()
RECURSIVE LStrip(_)
LStrip(s) ==
    IF Len(s) > 0 /\ IsSpace(s[1]) THEN LStrip(Tail(s)) ELSE s

RECURSIVE RStrip(_)
RStrip(s) ==
    IF Len(s) > 0 /\ IsSpace(s[Len(s)])
        THEN RStrip(SubSeq(s, 1, Len(s) - 1))
        ELSE s

Strip(s) == RStrip(LStrip(s))

\* A plausible slip: an opening tag that is never closed hides the rest of
\* the string.
StripThink_Swallow(content) ==
    LET kept == ReSub(content)
        opens == Occurrences(kept, 1, OpenTag)
    IN  IF opens = {} THEN Strip(kept)
        ELSE Strip(SubSeq(kept, 1, Min(opens) - 1))

\* Lines 130-135: the new value of message["content"].
StripThink(content) == Strip(ReSub(content))

\* ------------------------------------------------------- decoded JSON bodies
\* A decoded JSON value is a record of fixed shape: a key that may be absent
\* has a has_ flag, and a value whose type the code tests has a kind.
\*   message: reasoning (any type), content (a string or not), role
\*   choice : an object with an optional message, or some other value
\*   body   : an object with optional choices, or some other value
JsonKinds == {"str", "obj", "null", "num"}

NoMessage ==
    [has_reasoning |-> FALSE, reasoning |-> "absent",
     has_content |-> FALSE, content_kind |-> "absent", content |-> <<>>,
     role |-> "absent"]

Message(reasoning, content_kind, content, role) ==
    [has_reasoning |-> reasoning # "absent", reasoning |-> reasoning,
     has_content |-> content_kind # "absent", content_kind |-> content_kind,
     content |-> content, role |-> role]

\* A choice that is a dict; message_kind "absent" is a dict with no message.
Choice(message_kind, message, index) ==
    [kind |-> "obj", has_message |-> message_kind # "absent",
     message_kind |-> message_kind, message |-> message, index |-> index]

\* A choice that is not a dict (a string, null, ...).
OtherChoice(kind) ==
    [kind |-> kind, has_message |-> FALSE, message_kind |-> "absent",
     message |-> NoMessage, index |-> 0]

\* A body that is a dict; choices_kind "absent" is a dict with no choices.
Body(choices_kind, choices, id) ==
    [kind |-> "obj", has_choices |-> choices_kind # "absent",
     choices_kind |-> choices_kind, choices |-> choices, id |-> id]

\* A body that is not a dict (a list, a string, ...).
OtherBody(kind) ==
    [kind |-> kind, has_choices |-> FALSE, choices_kind |-> "absent",
     choices |-> <<>>, id |-> "absent"]

\* ----------------------------------------------------------- reasoning filter
\* Lines 121-122: del message["reasoning"].
DelReasoning(message) ==
    IF message.has_reasoning
        THEN [message EXCEPT !.has_reasoning = FALSE, !.reasoning = "absent"]
        ELSE message

\* Lines 125-135: the content of a message, when it is a string.
FilterContent(message) ==
    IF message.has_content /\ message.content_kind = "str"
        THEN [message EXCEPT !.content = StripThink(@)]
        ELSE message

\* Lines 117-135: one iteration of the loop over choices.
FilterChoice(choice) ==
    IF choice.kind = "obj" /\ choice.has_message
        THEN IF choice.message_kind = "obj"
                THEN [choice EXCEPT
                        !.message = FilterContent(DelReasoning(@))]
                ELSE choice
        ELSE choice

\* A plausible slip: only choices[0] is filtered.
FilterResponseData_FirstOnly(policy, data) ==
    IF policy /\ data.kind = "obj" /\ data.has_choices
        THEN IF data.choices_kind \in {"null", "num"}
                THEN [exc |-> "TypeError", data |-> data]
                ELSE [exc |-> "none",
                      data |-> [data EXCEPT !.choices =
                                  [i \in 1..Len(@) |->
                                     IF i = 1 THEN FilterChoice(@[i])
                                              ELSE @[i]]]]
        ELSE [exc |-> "none", data |-> data]

\* `for choice in response_data["choices"]` (line 116): a list is iterated;
\* a string or a dict yields strings, which are no dicts; None and numbers
\* are not iterable and raise TypeError.
Iterable(choices_kind) == choices_kind \in {"list", "str", "obj"}

\* Lines 114-135: the data handed to JSONResponse, or the exception raised.
FilterResponseData(policy, data) ==
    IF policy /\ data.kind = "obj" /\ data.has_choices
        THEN IF ~Iterable(data.choices_kind)
                THEN [exc |-> "TypeError", data |-> data]
                ELSE [exc |-> "none",
                      data |-> [data EXCEPT !.choices =
                                  [i \in 1..Len(@) |-> FilterChoice(@[i])]]]
        ELSE [exc |-> "none", data |-> data]

\* ------------------------------------------------------------------ requests
\* The backend address fixed at creation (line 43), kept as one token.
BackendUrl == <<"http://127.0.0.1:{backend_port}">>

\* An inbound request as the handler sees it: path is the part of the URL
\* after the mount point's "/", query and headers are ordered multi-maps of
\* <<name, value>> pairs, body is the raw byte string.
NoRequest ==
    [method |-> "none", path |-> <<>>, query |-> <<>>, headers |-> <<>>,
     body |-> <<>>]

NoOutbound ==
    [method |-> "none", url |-> <<>>, headers |-> <<>>, content |-> <<>>,
     params |-> <<>>]

\* dict(multi_map): one entry per name, in the order of first appearance.
\* For request.headers (line 78) the value kept is the first one.
DictFirst(pairs) ==
    SelectSeq([i \in 1..Len(pairs) |-> <<pairs[i][1], pairs[i][2], i>>],
              LAMBDA e : \A j \in 1..(e[3] - 1) : pairs[j][1] # e[1])

HeadersDict(headers) ==
    [i \in 1..Len(DictFirst(headers)) |->
        <<DictFirst(headers)[i][1], DictFirst(headers)[i][2]>>]

\* headers.pop("host", None) (line 81)
PopHost(dict) == SelectSeq(dict, LAMBDA e : e[1] # "host")

\* params=request.query_params (line 93): the client library reads the
\* multi-map through items(), which holds one value per key, the last one.
LastValue(pairs, name) ==
    pairs[CHOOSE i \in 1..Len(pairs) :
            /\ pairs[i][1] = name
            /\ \A j \in (i + 1)..Len(pairs) : pairs[j][1] # name][2]

ParamsOf(query) ==
    [i \in 1..Len(DictFirst(query)) |->
        <<DictFirst(query)[i][1], LastValue(query, DictFirst(query)[i][1])>>]

\* A plausible slip: no body is sent with a GET.
OutboundRequest_GetNoBody(request) ==
    [method |-> request.method,
     url |-> BackendUrl \o <<"/">> \o request.path,
     headers |-> PopHost(HeadersDict(request.headers)),
     content |-> IF request.method = "GET" THEN <<>> ELSE request.body,
     params |-> ParamsOf(request.query)]

\* Lines 77-94: the arguments of client.request.
OutboundRequest(request) ==
    [method |-> request.method,
     url |-> BackendUrl \o <<"/">> \o request.path,
     headers |-> PopHost(HeadersDict(request.headers)),
     content |-> request.body,
     params |-> ParamsOf(request.query)]

\* ----------------------------------------------------------------- responses
\* Content types the code looks for (lines 97 and 110).
EventStreamType == <<"t", "e", "x", "t", "/", "e", "v", "e", "n", "t", "-", "s", "t", "r", "e", "a", "m">>
JsonType == <<"a", "p", "p", "l", "i", "c", "a", "t", "i", "o", "n", "/", "j", "s", "o", "n">>
PlainType == <<"t", "e", "x", "t", "/", "p", "l", "a", "i", "n">>

\* `sub in s`
Contains(s, sub) ==
    \E i \in 1..(Len(s) - Len(sub) + 1) : MatchAt(s, i, sub)

\* A decoded body that is absent.
NoData == OtherBody("absent")

\* A backend response: status, headers (a set of <<name, value>> pairs, one
\* per name, content-type kept apart), and the body: the chunks the backend
\* emits, and what the whole body decodes to as JSON, if it does.
NoBackendResponse ==
    [status |-> 0, content_type |-> None, headers |-> {}, chunks |-> <<>>,
     valid_json |-> FALSE, doc |-> NoData]

\* response.headers.get("content-type", "")
ContentTypeOf(response) ==
    IF response.content_type.some THEN response.content_type.val ELSE EmptyStr

\* dict(response.headers)
ResponseHeaders(response) ==
    response.headers \cup
    (IF response.content_type.some
        THEN {<<"content-type", response.content_type.val>>}
        ELSE {})

\* response_headers.pop("content-length", None) (lines 139 and 149)
PopContentLength(headers) == {h \in headers : h[1] # "content-length"}

\* The whole body: the chunks in the order received.
RECURSIVE Flatten(_)
Flatten(chunks) ==
    IF chunks = <<>> THEN <<>> ELSE Head(chunks) \o Flatten(Tail(chunks))

\* A plausible slip: a completion marker appended to the stream.
AiterBytes_Marker(content) ==
    IF content = <<>> THEN <<>> ELSE <<content, <<"[", "D", "]">>>>

\* response.aiter_bytes() on a response that client.request has read whole:
\* the content as one chunk, or nothing when it is empty.
AiterBytes(content) == IF content = <<>> THEN <<>> ELSE <<content>>

\* json.dumps of a str, as JSONResponse renders response.text (line 152).
RECURSIVE JsonEscape(_)
JsonEscape(text) ==
    IF text = <<>> THEN <<>>
    ELSE (IF Head(text) = "\n" THEN <<"\\", "n">>
          ELSE IF Head(text) = "\"" THEN <<"\\", "\"">>
          ELSE <<Head(text)>>) \o JsonEscape(Tail(text))

JsonDumpsStr(text) == <<"\"">> \o JsonEscape(text) \o <<"\"">>

\* What the client has received: nothing yet (status 0), a stream (status and
\* headers, then chunks), a JSON document, a JSON-rendered string, or an error.
NoClientResponse ==
    [status |-> 0, origin |-> "none", kind |-> "none", headers |-> {},
     chunks |-> <<>>, data |-> NoData, text |-> <<>>, detail |-> <<>>]

\* Lines 70-74.
UnauthorizedResponse ==
    [NoClientResponse EXCEPT
        !.status = 401, !.origin = "proxy", !.kind = "error",
        !.headers = {<<"www-authenticate", <<"Bearer">>>>},
        !.detail = <<"Invalid or missing API key">>]

\* A plausible slip: detail=str(e), which is empty for some failures.
BadGatewayResponse_NoPrefix(cause) ==
    [status |-> 502, origin |-> "proxy", kind |-> "error", headers |-> {},
     chunks |-> <<>>, data |-> OtherBody("absent"), text |-> <<>>,
     detail |-> cause]

\* Lines 157-161.
BadGatewayResponse(cause) ==
    [NoClientResponse EXCEPT
        !.status = 502, !.origin = "proxy", !.kind = "error",
        !.detail = <<"Backend service unavailable: ">> \o cause]

\* A plausible slip: every exception answered as a backend failure.
ServerErrorResponse_BadGateway ==
    [NoClientResponse EXCEPT
        !.status = 502, !.origin = "proxy", !.kind = "error",
        !.text = <<"Internal Server Error">>]

\* An exception the handler does not catch: the framework answers 500.
ServerErrorResponse ==
    [NoClientResponse EXCEPT
        !.status = 500, !.origin = "proxy", !.kind = "error",
        !.text = <<"Internal Server Error">>]

\* Lines 102-107: status and headers of the StreamingResponse.
StreamingResponse(response) ==
    [NoClientResponse EXCEPT
        !.status = response.status, !.origin = "backend", !.kind = "stream",
        !.headers = ResponseHeaders(response)]

\* Lines 110-155: the buffered branch.
BufferedResponse(policy, response) ==
    IF StartsWith(ContentTypeOf(response), JsonType)
        THEN LET filtered == FilterResponseData(policy, response.doc)
             IN  IF ~response.valid_json \/ filtered.exc # "none"
                    THEN ServerErrorResponse
                    ELSE [NoClientResponse EXCEPT
                            !.status = response.status,
                            !.origin = "backend", !.kind = "json",
                            !.headers =
                                PopContentLength(ResponseHeaders(response)),
                            !.data = filtered.data]
        ELSE [NoClientResponse EXCEPT
                !.status = response.status, !.origin = "backend",
                !.kind = "jsonstr",
                !.headers = PopContentLength(ResponseHeaders(response)),
                !.text = JsonDumpsStr(Flatten(response.chunks))]

\* A plausible slip: the content type tested at its start only.
IsStream_StartsWith(response) ==
    StartsWith(ContentTypeOf(response), EventStreamType)

\* Line 97.
IsStream(response) == Contains(ContentTypeOf(response), EventStreamType)

\* --------------------------------------------------------------------- state
VARIABLES
    api_key,           \* create_auth_proxy's argument: None or a string
    api_keys,          \* create_auth_proxy's argument: None or a list
    valid_keys,        \* the credential set built from them
    filter_reasoning,  \* the filter policy
    slot               \* one record per request the proxy is handling

vars == <<api_key, api_keys, valid_keys, filter_reasoning, slot>>

config == <<api_key, api_keys, valid_keys, filter_reasoning>>

\* The requests in flight at once.
Slots == {1, 2}

\* One request's handling:
\*   idle       no request yet
\*   awaiting   client.request is waiting for the backend's status line
\*   receiving  the backend has answered and is emitting its body, which
\*              client.request reads to the end before it returns
\*   streaming  the handler has returned a StreamingResponse, whose chunks
\*              the server writes to the client
\*   done       the client has the whole response
\* inbound and outbound are the request and the arguments of client.request;
\* nothing reads them after line 94, and they are dropped when the backend
\* answers. pending is what stream_response has yet to yield. after502 marks
\* a request that arrived after another one was answered 502, after500 one
\* that arrived after another one ended in an unhandled exception, beside
\* one that arrived while another one was waiting for its backend call, gone
\* one whose client has closed the connection.
IdleSlot ==
    [pc |-> "idle", inbound |-> NoRequest, outbound |-> NoOutbound,
     nsent |-> 0, body_read |-> FALSE, bresp |-> NoBackendResponse,
     emitted |-> 0, failed |-> FALSE, pending |-> <<>>,
     client |-> NoClientResponse, after502 |-> FALSE, after500 |-> FALSE,
     beside |-> FALSE, gone |-> FALSE]

\* ------------------------------------------------------------------- inputs
K1 == <<"k">>
K2 == <<"K">>

\* The ways the proxy is created: api_key absent, empty or a key; api_keys
\* absent, empty, or a list of keys.
ApiKeyArgs == {None, Some(EmptyStr), Some(K1)}
ApiKeysArgs == {None, Some(<<>>), Some(<<K1, K2>>)}

Authorization(value) == <<"authorization", value>>
Host == <<"host", <<"proxy:8080">>>>

\* Longest body, in chunks, the backend emits.
MaxChunks == 2

Methods == {"GET", "POST"}
Paths == {<<>>, <<"v", "1">>}
Queries == {<<>>, << <<"a", <<"1">>>>, <<"b", <<"3">>>>, <<"a", <<"2">>>> >>}
Bodies == {<<>>, <<"b", "\n">>}
HeaderLists ==
    { <<>>,
      <<Host, Authorization(BearerPrefix \o K1)>>,
      <<Authorization(BearerPrefix \o K2), Host>>,
      <<Host, Authorization(<<"b", "e", "a", "r", "e", "r", " ">> \o K1)>>,
      <<Authorization(BearerPrefix \o <<"z">>),
        Authorization(BearerPrefix \o K1)>> }

InboundRequests ==
    [method : Methods, path : Paths, query : Queries, headers : HeaderLists,
     body : Bodies]

\* Bodies that are not JSON, as the chunks the backend emits.
RawChunks == {<<"x">>, <<"y", "\n">>}
RawBodies == SeqsUpTo(RawChunks, MaxChunks)

Think(inner) == OpenTag \o inner \o CloseTag

\* Decoded JSON bodies: chat completions and other shapes.
Doc1 ==
    Body("list",
         <<Choice("obj", Message("str", "str", Think(<<"h">>) \o <<"H", "i">>,
                                 "assistant"), 0)>>, "id1")
Doc2 ==
    Body("list",
         <<Choice("obj", Message("absent", "str", <<" ", "H", "i">>,
                                 "assistant"), 0),
           Choice("obj", Message("obj", "null", <<>>, "tool"), 1)>>, "id2")
Doc3 == Body("null", <<>>, "id3")
Doc4 == Body("absent", <<>>, "id4")
Doc5 == OtherBody("list")

MainDocs == {Doc1, Doc2, Doc3, Doc4, Doc5}

Statuses == {200, 503}
ContentTypes ==
    { None, Some(EventStreamType), Some(JsonType), Some(PlainType),
      Some(EventStreamType \o <<";", "q">>),
      Some(<<"x", ",">> \o EventStreamType),
      Some(<<"T">> \o Tail(EventStreamType)),
      Some(JsonType \o <<";", "q">>) }
ExtraHeaders ==
    { {},
      {<<"content-length", <<"9">>>>, <<"x-request-id", <<"r">>>>} }

\* The body of a JSON document is kept decoded; its bytes are one chunk.
JsonChunks == << <<"{..}">> >>

BackendResponses ==
    [status : Statuses, content_type : ContentTypes, headers : ExtraHeaders,
     chunks : RawBodies, valid_json : {FALSE}, doc : {NoData}]
    \cup
    [status : Statuses, content_type : {Some(JsonType)},
     headers : ExtraHeaders, chunks : {JsonChunks}, valid_json : {TRUE},
     doc : MainDocs]

\* str(e) of a transport failure; some have an empty message.
Causes == {EmptyStr, <<"Connection refused">>}

\* ---------------------------------------------------------------------- Init
ConfigInit ==
    /\ api_key \in ApiKeyArgs
    /\ api_keys \in ApiKeysArgs
    /\ valid_keys = BuildValidKeys(api_key, api_keys)
    /\ filter_reasoning \in BOOLEAN

Init ==
    /\ ConfigInit
    /\ slot = [i \in Slots |-> IdleSlot]

\* ------------------------------------------------------------------- actions
\* Some other request has been answered 502.
Seen502(i) ==
    \E j \in Slots \ {i} : slot[j].pc = "done" /\ slot[j].client.status = 502

\* Some other request has ended in an unhandled exception.
Seen500(i) ==
    \E j \in Slots \ {i} :
        /\ slot[j].pc = "done"
        /\ slot[j].client.status = 500
        /\ slot[j].client.origin = "proxy"

\* Some other request is suspended in client.request, with no answer yet.
SeenWaiting(i) == \E j \in Slots \ {i} : slot[j].pc = "awaiting"

\* A plausible slip: the body is read and the backend called before the key
\* is checked.
Proxy_CallFirst(i, requests) ==
    /\ slot[i].pc = "idle"
    /\ \E request \in requests :
         slot' = [slot EXCEPT ![i] =
            IF ~verify_api_key(valid_keys, request.headers)
               THEN [@ EXCEPT !.pc = "done", !.inbound = request,
                              !.body_read = TRUE, !.nsent = @ + 1,
                              !.client = UnauthorizedResponse,
                              !.after502 = Seen502(i),
                              !.after500 = Seen500(i),
                              !.beside = SeenWaiting(i)]
               ELSE [@ EXCEPT !.pc = "awaiting", !.inbound = request,
                              !.body_read = TRUE,
                              !.outbound = OutboundRequest(request),
                              !.nsent = @ + 1,
                              !.after502 = Seen502(i),
                              !.after500 = Seen500(i),
                              !.beside = SeenWaiting(i)]]
    /\ UNCHANGED config

\* Lines 66-94: a request arrives; it is rejected, or its body is read and
\* the outbound request issued.
Proxy(i, requests) ==
    /\ slot[i].pc = "idle"
    /\ \E request \in requests :
         slot' = [slot EXCEPT ![i] =
            IF ~verify_api_key(valid_keys, request.headers)
               THEN [@ EXCEPT !.pc = "done", !.inbound = request,
                              !.client = UnauthorizedResponse,
                              !.after502 = Seen502(i),
                              !.after500 = Seen500(i),
                              !.beside = SeenWaiting(i)]
               ELSE [@ EXCEPT !.pc = "awaiting", !.inbound = request,
                              !.body_read = TRUE,
                              !.outbound = OutboundRequest(request),
                              !.nsent = @ + 1,
                              !.after502 = Seen502(i),
                              !.after500 = Seen500(i),
                              !.beside = SeenWaiting(i)]]
    /\ UNCHANGED config

\* A plausible slip: one backend call at a time, the next one waits for the
\* one before it to return.
BackendRespond_Serial(i, responses) ==
    /\ slot[i].pc = "awaiting"
    /\ \A j \in Slots : j < i => slot[j].pc # "awaiting"
    /\ \E response \in responses :
         slot' = [slot EXCEPT ![i] =
            [@ EXCEPT !.pc = "receiving", !.bresp = response, !.emitted = 0,
                      !.inbound = NoRequest, !.outbound = NoOutbound]]
    /\ UNCHANGED config

\* The backend answers the outbound request: status, headers, and a body it
\* goes on to emit.
BackendRespond(i, responses) ==
    /\ slot[i].pc = "awaiting"
    /\ \E response \in responses :
         slot' = [slot EXCEPT ![i] =
            [@ EXCEPT !.pc = "receiving", !.bresp = response, !.emitted = 0,
                      !.inbound = NoRequest, !.outbound = NoOutbound]]
    /\ UNCHANGED config

\* The backend emits its next chunk.
BackendEmit(i) ==
    /\ slot[i].pc = "receiving"
    /\ slot[i].emitted < Len(slot[i].bresp.chunks)
    /\ slot' = [slot EXCEPT ![i].emitted = @ + 1]
    /\ UNCHANGED config

\* A plausible slip: the call is issued once more before giving up.
TransportFailure_Retry(i, cause) ==
    /\ slot[i].pc \in {"awaiting", "receiving"}
    /\ slot' = [slot EXCEPT ![i] =
         IF slot[i].pc = "awaiting" /\ slot[i].nsent < 2
            THEN [@ EXCEPT !.nsent = @ + 1]
            ELSE [@ EXCEPT !.pc = "done", !.failed = TRUE,
                           !.inbound = NoRequest, !.outbound = NoOutbound,
                           !.bresp = NoBackendResponse, !.emitted = 0,
                           !.client = BadGatewayResponse(cause)]]
    /\ UNCHANGED config

\* Lines 157-161: client.request raises httpx.RequestError (the connection
\* is refused, times out, or is reset before the body is complete).
TransportFailure(i, cause) ==
    /\ slot[i].pc \in {"awaiting", "receiving"}
    /\ slot' = [slot EXCEPT ![i] =
         [@ EXCEPT !.pc = "done", !.failed = TRUE,
                   !.inbound = NoRequest, !.outbound = NoOutbound,
                   !.bresp = NoBackendResponse, !.emitted = 0,
                   !.client = BadGatewayResponse(cause)]]
    /\ UNCHANGED config

\* A plausible slip: the think-tag filter also run over a streamed body.
ProxyReturn_FilterStream(i) ==
    /\ slot[i].pc = "receiving"
    /\ slot[i].emitted = Len(slot[i].bresp.chunks)
    /\ slot' = [slot EXCEPT ![i] =
         IF IsStream(slot[i].bresp)
            THEN [@ EXCEPT !.pc = "streaming",
                           !.client = StreamingResponse(slot[i].bresp),
                           !.pending =
                              AiterBytes(
                                 IF filter_reasoning
                                    THEN StripThink(
                                            Flatten(slot[i].bresp.chunks))
                                    ELSE Flatten(slot[i].bresp.chunks))]
            ELSE [@ EXCEPT !.pc = "done",
                           !.client =
                              BufferedResponse(filter_reasoning,
                                               slot[i].bresp)]]
    /\ UNCHANGED config

\* Lines 88-155: client.request returns once the whole body is read; the
\* response is classified and a StreamingResponse or a buffered response is
\* returned.
ProxyReturn(i) ==
    /\ slot[i].pc = "receiving"
    /\ slot[i].emitted = Len(slot[i].bresp.chunks)
    /\ slot' = [slot EXCEPT ![i] =
         IF IsStream(slot[i].bresp)
            THEN [@ EXCEPT !.pc = "streaming",
                           !.client = StreamingResponse(slot[i].bresp),
                           !.pending =
                              AiterBytes(Flatten(slot[i].bresp.chunks))]
            ELSE [@ EXCEPT !.pc = "done",
                           !.client =
                              BufferedResponse(filter_reasoning,
                                               slot[i].bresp)]]
    /\ UNCHANGED config

\* Lines 98-100: the server takes the next chunk of stream_response and
\* writes it to the client; the response ends when there is none.
StreamNext(i) ==
    /\ slot[i].pc = "streaming"
    /\ slot' = [slot EXCEPT ![i] =
         IF @.pending # <<>>
            THEN [@ EXCEPT !.client.chunks = Append(@, Head(slot[i].pending)),
                           !.pending = Tail(@)]
            ELSE [@ EXCEPT !.pc = "done"]]
    /\ UNCHANGED config

\* The handler's steps for the requests in S, with inputs from the given sets.
Step(S, requests, responses) ==
    \E i \in S :
        \/ Proxy(i, requests)
        \/ BackendRespond(i, responses)
        \/ BackendEmit(i)
        \/ \E cause \in Causes : TransportFailure(i, cause)
        \/ ProxyReturn(i)
        \/ StreamNext(i)

\* One request at a time, over all the inputs.
Next == Step({1}, InboundRequests, BackendResponses)

Spec == Init /\ [][Next]_vars

\* ------------------------------------------------- requests handled at once
\* Two requests in flight, over a few inputs of each kind.
ConcRequests ==
    [method : {"POST"}, path : {<<"v", "1">>}, query : {<<>>},
     headers : {<<>>, <<Host, Authorization(BearerPrefix \o K1)>>},
     body : {<<"b", "\n">>}]

ConcResponses ==
    [status : {200}, content_type : {Some(EventStreamType), Some(PlainType)},
     headers : {{}},
     chunks : {<<>>, << <<"x">> >>, << <<"x">>, <<"y", "\n">> >>},
     valid_json : {FALSE}, doc : {NoData}]
    \cup
    [status : {200}, content_type : {Some(JsonType)}, headers : {{}},
     chunks : {JsonChunks}, valid_json : {TRUE}, doc : {Doc1, Doc3}]

NextConc == Step(Slots, ConcRequests, ConcResponses)

SpecConc == Init /\ [][NextConc]_vars

\* -------------------------------------------------------- a stalled backend
\* Two requests in flight; the backend of the second one answers and the
\* event loop runs every coroutine that is ready, while nothing is promised
\* about the backend call of the first one, which may stay out for ever.
Served == 2

StallResponses ==
    [status : {200}, content_type : {Some(EventStreamType), Some(PlainType)},
     headers : {{}}, chunks : {<< <<"x">>, <<"y", "\n">> >>},
     valid_json : {FALSE}, doc : {NoData}]

InitStall ==
    /\ api_key \in {None, Some(K1)}
    /\ api_keys = None
    /\ valid_keys = BuildValidKeys(api_key, api_keys)
    /\ filter_reasoning = FALSE
    /\ slot = [i \in Slots |-> IdleSlot]

NextStall == Step(Slots, ConcRequests, StallResponses)

FairServed ==
    /\ WF_vars(BackendRespond(Served, StallResponses))
    /\ WF_vars(BackendEmit(Served))
    /\ WF_vars(ProxyReturn(Served))
    /\ WF_vars(StreamNext(Served))

SpecStall == InitStall /\ [][NextStall]_vars /\ FairServed

\* ------------------------------------------------------ a client that leaves
\* The client closes its connection. Lines 83-94 hold no test of the
\* connection and no handler for its loss: a handler suspended in
\* client.request is left to run, and the call reads the backend's answer to
\* its end.
ClientDisconnect(i) ==
    /\ slot[i].pc \in {"awaiting", "receiving", "streaming"}
    /\ ~slot[i].gone
    /\ slot' = [slot EXCEPT ![i].gone = TRUE]
    /\ UNCHANGED config

\* The server finds the connection closed while it writes a
\* StreamingResponse and closes stream_response (lines 98-107); the body it
\* iterates was read whole before the handler returned.
StreamCancel(i) ==
    /\ slot[i].pc = "streaming"
    /\ slot[i].gone
    /\ slot' = [slot EXCEPT ![i] = [@ EXCEPT !.pc = "done", !.pending = <<>>]]
    /\ UNCHANGED config

NextGone ==
    \/ Step(Slots, ConcRequests, StallResponses)
    \/ \E i \in Slots : ClientDisconnect(i)
    \/ \E i \in Slots : StreamCancel(i)

SpecGone == InitStall /\ [][NextGone]_vars

\* ------------------------------------------------ authentication, many headers
\* One request, over many credential sets and Authorization headers: each
\* scheme prefix followed by each token of at most MaxTok characters.
AuthApiKeyArgs == {None, Some(EmptyStr), Some(K1), Some(K2)}
AuthApiKeysArgs ==
    {None, Some(<<>>), Some(<<K1>>), Some(<<K1, K2>>), Some(<<EmptyStr>>),
     Some(<< <<" ", "k">> >>)}

Schemes ==
    { BearerPrefix,
      <<"b", "e", "a", "r", "e", "r", " ">>,
      <<"B", "e", "a", "r", "e", "r">>,
      <<"B", "a", "s", "i", "c", " ">>,
      EmptyStr }
TokChars == {"k", "K", " "}

AuthHeaderLists ==
    {<<>>}
    \cup {<<Authorization(p \o t)>> : p \in Schemes,
                                      t \in SeqsUpTo(TokChars, MaxTok)}
    \cup { <<Host, Authorization(BearerPrefix \o K1)>>,
           <<Authorization(BearerPrefix \o <<"z">>),
             Authorization(BearerPrefix \o K1)>>,
           <<Authorization(BearerPrefix \o K1),
             Authorization(BearerPrefix \o <<"z">>)>> }

AuthRequests ==
    [method : {"GET"}, path : {<<"v", "1">>}, query : {<<>>},
     headers : AuthHeaderLists, body : {<<>>}]

AuthResponses ==
    [status : {200}, content_type : {Some(EventStreamType), Some(PlainType)},
     headers : {{}}, chunks : {<< <<"x">> >>}, valid_json : {FALSE},
     doc : {NoData}]

InitAuth ==
    /\ api_key \in AuthApiKeyArgs
    /\ api_keys \in AuthApiKeysArgs
    /\ valid_keys = BuildValidKeys(api_key, api_keys)
    /\ filter_reasoning = FALSE
    /\ slot = [i \in Slots |-> IdleSlot]

NextAuth == Step({1}, AuthRequests, AuthResponses)

SpecAuth == InitAuth /\ [][NextAuth]_vars

\* ------------------------------------------------ filtering, many JSON bodies
\* Longest content string, in pieces (a tag or one character).
MaxPieces == 5

Pieces == {OpenTag, CloseTag, <<"a">>, <<" ">>, <<"\n">>}

\* The example content of the specification's section 8.
HiddenHello ==
    Think(<<"h", "i", "d", "d", "e", "n">>) \o <<"H", "e", "l", "l", "o">>

\* Contents where a tag is cut in two by a block, or lies inside one.
OpenHalf1 == <<"<", "t", "h", "i">>
OpenHalf2 == <<"n", "k", ">">>
SplitTagContents ==
    { OpenHalf1 \o Think(<<"a">>) \o OpenHalf2 \o <<"b">> \o CloseTag,
      OpenHalf1 \o OpenHalf2 \o <<"a">> \o CloseTag \o <<" ", "b">>,
      OpenHalf1 \o <<" ">> \o Think(OpenTag \o <<"a">>) \o <<"b", "\n">>,
      <<"<">> \o Think(<<"<", "/">>) \o <<"\n", "/", ">", " ">> }

ContentInputs ==
    {Flatten(ps) : ps \in SeqsUpTo(Pieces, MaxPieces)}
    \cup {HiddenHello} \cup SplitTagContents

\* Choices of every shape the loop tests for.
SmallChoices ==
    {Choice("obj", Message(r, "str", Think(<<"a">>) \o <<"b">>, "assistant"),
            0) : r \in JsonKinds \cup {"absent"}}
    \cup {Choice("obj", Message(r, "null", <<>>, "assistant"), 0) :
            r \in JsonKinds \cup {"absent"}}
    \cup {Choice("obj", Message(r, "absent", <<>>, "tool"), 0) :
            r \in JsonKinds \cup {"absent"}}
    \cup {Choice("absent", NoMessage, 1), Choice("str", NoMessage, 1),
          OtherChoice("str"), OtherChoice("null")}

FilterDocs ==
    {Body("list", <<Choice("obj", Message(r, "str", c, "assistant"), 0)>>,
          "id") : r \in {"absent", "str"}, c \in ContentInputs}
    \cup {Body("list", <<c1, c2>>, "id") : c1 \in SmallChoices,
                                           c2 \in SmallChoices}
    \cup {Body("list", <<>>, "id")}
    \cup {Body(k, <<>>, "id") : k \in {"num", "str", "obj"}}
    \cup MainDocs

FilterRequests ==
    [method : {"POST"}, path : {<<"v", "1">>}, query : {<<>>},
     headers : {<<>>}, body : {<<"b", "\n">>}]

FilterResponses ==
    [status : {200}, content_type : {Some(JsonType)}, headers : {{}},
     chunks : {JsonChunks}, valid_json : {TRUE}, doc : FilterDocs]
    \cup
    [status : {200}, content_type : {Some(EventStreamType)}, headers : {{}},
     chunks : {<< Think(<<"a">>) \o <<"b">> >>}, valid_json : {FALSE},
     doc : {NoData}]

InitFilter ==
    /\ api_key = None
    /\ api_keys = None
    /\ valid_keys = BuildValidKeys(api_key, api_keys)
    /\ filter_reasoning \in BOOLEAN
    /\ slot = [i \in Slots |-> IdleSlot]

NextFilter == Step({1}, FilterRequests, FilterResponses)

SpecFilter == InitFilter /\ [][NextFilter]_vars

\* ==================================================================== claims
\* What the claims say, stated apart from the operators above.

\* The request's Authorization header (the first one) is "Bearer " followed
\* by one of the keys.
BearsKey(keys, headers) ==
    \E n \in 1..Len(headers) :
        /\ headers[n][1] = "authorization"
        /\ \A m \in 1..(n - 1) : headers[m][1] # "authorization"
        /\ \E key \in keys : headers[n][2] = BearerPrefix \o key

\* Neither argument of create_auth_proxy yields a key.
NoKeyConfigured ==
    /\ api_key \in {None, Some(EmptyStr)}
    /\ api_keys \in {None, Some(<<>>)}

\* The request slot i holds: the handler has it and the backend has not
\* answered yet.
Holds(i) == slot[i].inbound # NoRequest

\* A content string as tags and characters.
RECURSIVE Tokenize(_)
Tokenize(s) ==
    IF s = <<>> THEN <<>>
    ELSE IF StartsWith(s, OpenTag)
        THEN <<"OPEN">> \o Tokenize(SliceFrom(s, Len(OpenTag)))
    ELSE IF StartsWith(s, CloseTag)
        THEN <<"CLOSE">> \o Tokenize(SliceFrom(s, Len(CloseTag)))
    ELSE <<Head(s)>> \o Tokenize(Tail(s))

RECURSIVE DropSpaces(_)
DropSpaces(toks) ==
    IF toks # <<>> /\ IsSpace(Head(toks)) THEN DropSpaces(Tail(toks)) ELSE toks

\* Every block removed: an opening tag with a closing tag after it goes, with
\* all up to the first closing tag and the whitespace after that tag.
RECURSIVE RemoveBlocks(_)
RemoveBlocks(toks) ==
    IF toks = <<>> THEN <<>>
    ELSE IF Head(toks) = "OPEN" /\ \E j \in 2..Len(toks) : toks[j] = "CLOSE"
        THEN LET j == CHOOSE j \in 2..Len(toks) :
                        /\ toks[j] = "CLOSE"
                        /\ \A m \in 2..(j - 1) : toks[m] # "CLOSE"
             IN  RemoveBlocks(DropSpaces(SubSeq(toks, j + 1, Len(toks))))
    ELSE <<Head(toks)>> \o RemoveBlocks(Tail(toks))

RECURSIVE Untokenize(_)
Untokenize(toks) ==
    IF toks = <<>> THEN <<>>
    ELSE (IF Head(toks) = "OPEN" THEN OpenTag
          ELSE IF Head(toks) = "CLOSE" THEN CloseTag
          ELSE <<Head(toks)>>) \o Untokenize(Tail(toks))

\* s from its first to its last character that is no whitespace.
Trimmed(s) ==
    LET inked == {n \in 1..Len(s) : ~IsSpace(s[n])}
    IN  IF inked = {} THEN <<>>
        ELSE SubSeq(s, CHOOSE n \in inked : \A m \in inked : n <= m,
                       CHOOSE n \in inked : \A m \in inked : m <= n)

WithoutThink(s) == Trimmed(Untokenize(RemoveBlocks(Tokenize(s))))

\* s holds a block: an opening tag and, after it, a closing tag.
HasThinkBlock(s) ==
    \E a \in 1..Len(s), c \in 1..Len(s) :
        /\ MatchAt(s, a, OpenTag)
        /\ MatchAt(s, c, CloseTag)
        /\ c >= a + Len(OpenTag)

\* Slot i has relayed, with the filter policy enabled, a buffered JSON body
\* that is an object with a choices sequence.
FilteredChat(i) ==
    /\ filter_reasoning
    /\ slot[i].pc = "done"
    /\ slot[i].bresp.valid_json
    /\ ~IsStream(slot[i].bresp)
    /\ slot[i].bresp.doc.kind = "obj"
    /\ slot[i].bresp.doc.choices_kind = "list"

\* Choice k of the body the backend sent to slot i, and of the body relayed.
SrcChoice(i, k) == slot[i].bresp.doc.choices[k]
OutChoice(i, k) == slot[i].client.data.choices[k]
HasMessageObject(choice) == choice.kind = "obj" /\ choice.message_kind = "obj"

\* C1: with a non-empty credential set, a request that bears no key is
\* answered 401 with WWW-Authenticate: Bearer, its body is not read, and no
\* outbound request is ever issued for it.
C1_RejectedBeforeBackend ==
    \A i \in Slots :
        (Holds(i) /\ valid_keys # {}
            /\ ~BearsKey(valid_keys, slot[i].inbound.headers))
        => /\ slot[i].pc = "done"
           /\ slot[i].client.status = 401
           /\ <<"www-authenticate", <<"Bearer">>>> \in slot[i].client.headers
           /\ slot[i].nsent = 0
           /\ ~slot[i].body_read
           /\ slot[i].outbound = NoOutbound
           /\ slot[i].bresp = NoBackendResponse

C1_Witness ==
    \E i \in Slots :
        /\ valid_keys # {}
        /\ Holds(i)
        /\ \A n \in 1..Len(slot[i].inbound.headers) :
               slot[i].inbound.headers[n][1] # "authorization"
        /\ slot[i].inbound.body # <<>>
        /\ slot[i].client.status = 401
        /\ slot[i].nsent = 0

\* C2: with a non-empty credential set, a request passes verify_api_key if
\* and only if its Authorization header is exactly "Bearer " followed by a
\* key of the set; otherwise it is rejected.
C2_VerifyIffBearerKey ==
    \A i \in Slots :
        (Holds(i) /\ valid_keys # {})
        => /\ (slot[i].pc = "awaiting" /\ slot[i].nsent = 1)
                <=> BearsKey(valid_keys, slot[i].inbound.headers)
           /\ (slot[i].pc = "done" /\ slot[i].client.status = 401)
                <=> ~BearsKey(valid_keys, slot[i].inbound.headers)

C2_Witness ==
    \E i \in Slots :
        /\ valid_keys = {K1, K2}
        /\ Holds(i)
        /\ slot[i].inbound.headers =
              <<Authorization(BearerPrefix \o <<" ">> \o K1)>>
        /\ slot[i].client.status = 401

\* C3: with no key configured, every request is forwarded, whatever its
\* Authorization header, and the proxy answers none with a 401 of its own.
C3_AuthDisabledForwardsAll ==
    NoKeyConfigured
    => \A i \in Slots :
          slot[i].pc # "idle"
          => /\ slot[i].nsent = 1
             /\ ~(slot[i].client.origin = "proxy"
                    /\ slot[i].client.status = 401)

C3_Witness ==
    \E i \in Slots :
        /\ NoKeyConfigured
        /\ api_key = Some(EmptyStr)
        /\ Holds(i)
        /\ slot[i].inbound.headers = <<>>
        /\ slot[i].pc = "awaiting"
        /\ slot[i].nsent = 1

\* C4: an authenticated request is forwarded in one outbound request with
\* the inbound method, the URL backend base + "/" + inbound path, and the
\* inbound body.
C4_ForwardedUnchanged ==
    \A i \in Slots :
        (Holds(i) /\ (valid_keys = {}
                        \/ BearsKey(valid_keys, slot[i].inbound.headers)))
        => /\ slot[i].pc = "awaiting"
           /\ slot[i].nsent = 1
           /\ slot[i].outbound.method = slot[i].inbound.method
           /\ slot[i].outbound.url =
                 BackendUrl \o <<"/">> \o slot[i].inbound.path
           /\ slot[i].outbound.content = slot[i].inbound.body

C4_Witness ==
    \E i \in Slots :
        /\ valid_keys # {}
        /\ slot[i].pc = "awaiting"
        /\ slot[i].inbound.method = "GET"
        /\ slot[i].inbound.path = <<"v", "1">>
        /\ slot[i].inbound.body = <<"b", "\n">>
        /\ slot[i].outbound.content = <<"b", "\n">>

\* C5: a transport failure is answered 502 with a non-empty detail, and a
\* request arriving after that is forwarded and, when its own call does not
\* fail, answered with the backend's status.
C5_BadGatewayThenServing ==
    \A i \in Slots :
        /\ slot[i].failed
            => /\ slot[i].pc = "done"
               /\ slot[i].client.status = 502
               /\ slot[i].client.origin = "proxy"
               /\ Len(slot[i].client.detail) > 0
        /\ (slot[i].after502 /\ Holds(i)
              /\ (valid_keys = {}
                    \/ BearsKey(valid_keys, slot[i].inbound.headers)))
            => slot[i].pc = "awaiting" /\ slot[i].nsent = 1
        /\ (slot[i].after502 /\ ~slot[i].failed /\ slot[i].pc = "done")
            => /\ slot[i].client.status # 502
               /\ slot[i].client.origin = "backend"
                    => slot[i].client.status = slot[i].bresp.status

C5_Witness ==
    \E i \in Slots, j \in Slots :
        /\ slot[j].failed
        /\ slot[j].client.status = 502
        /\ slot[i].after502
        /\ slot[i].pc = "done"
        /\ slot[i].client.origin = "backend"
        /\ slot[i].client.status = 200

\* C6: the bytes a stream's client receives are the bytes the backend
\* emitted, in order: what is delivered and what is yet to be yielded make up
\* the backend's body, and at the end the two are equal.
C6_StreamBytesEqual ==
    \A i \in Slots :
        slot[i].client.kind = "stream"
        => /\ Flatten(slot[i].client.chunks) \o Flatten(slot[i].pending)
                = Flatten(slot[i].bresp.chunks)
           /\ slot[i].pc = "done"
                => Flatten(slot[i].client.chunks)
                     = Flatten(slot[i].bresp.chunks)

C6_Witness ==
    \E i \in Slots :
        /\ slot[i].pc = "done"
        /\ slot[i].client.kind = "stream"
        /\ slot[i].bresp.chunks = << <<"x">>, <<"y", "\n">> >>
        /\ Flatten(slot[i].client.chunks) = <<"x", "y", "\n">>

\* C7: for a stream the backend emits in several chunks, the client has its
\* first bytes while the body is still incomplete: at the step in which the
\* backend emits the last chunk, the client already holds bytes.
C7_FirstBytesBeforeBodyComplete ==
    [][\A i \in Slots :
          (/\ slot[i].pc = "receiving"
           /\ IsStream(slot[i].bresp)
           /\ Len(slot[i].bresp.chunks) >= 2
           /\ slot[i].emitted < Len(slot[i].bresp.chunks)
           /\ slot'[i].emitted = Len(slot[i].bresp.chunks))
          => Flatten(slot[i].client.chunks) # <<>>]_vars

\* C8: with the filter enabled, no message object of any choice of a relayed
\* chat completion has a reasoning key, whatever the value's type.
C8_NoReasoningKey ==
    \A i \in Slots :
        FilteredChat(i)
        => /\ slot[i].client.kind = "json"
           /\ Len(slot[i].client.data.choices)
                = Len(slot[i].bresp.doc.choices)
           /\ \A k \in 1..Len(slot[i].client.data.choices) :
                 HasMessageObject(OutChoice(i, k))
                 => ~OutChoice(i, k).message.has_reasoning

C8_Witness ==
    \E i \in Slots :
        /\ FilteredChat(i)
        /\ Len(slot[i].bresp.doc.choices) = 2
        /\ SrcChoice(i, 1).message.reasoning = "null"
        /\ SrcChoice(i, 2).message.reasoning = "obj"
        /\ ~OutChoice(i, 1).message.has_reasoning
        /\ ~OutChoice(i, 2).message.has_reasoning

\* C9: with the filter enabled, the relayed content of every message whose
\* content is a string is the source content with every think block (and the
\* whitespace after it) removed, then trimmed; <think>hidden</think>Hello
\* becomes Hello.
C9_ThinkBlocksRemoved ==
    \A i \in Slots :
        FilteredChat(i)
        => /\ slot[i].client.kind = "json"
           /\ \A k \in 1..Len(slot[i].bresp.doc.choices) :
                 (HasMessageObject(SrcChoice(i, k))
                    /\ SrcChoice(i, k).message.content_kind = "str")
                 => /\ OutChoice(i, k).message.content
                         = WithoutThink(SrcChoice(i, k).message.content)
                    /\ SrcChoice(i, k).message.content = HiddenHello
                         => OutChoice(i, k).message.content
                              = <<"H", "e", "l", "l", "o">>

C9_Witness ==
    \E i \in Slots :
        /\ FilteredChat(i)
        /\ Len(slot[i].bresp.doc.choices) = 1
        /\ SrcChoice(i, 1).message.content
              = Think(<<>>) \o <<"a">> \o Think(<<>>)
        /\ OutChoice(i, 1).message.content = <<"a">>

\* C10: with the filter enabled, a message with no reasoning field and a
\* content string with no think block is relayed unchanged, its content
\* byte-identical, leading and trailing whitespace included.
C10_NoThinkIsNoOp ==
    \A i \in Slots :
        FilteredChat(i)
        => \A k \in 1..Len(slot[i].bresp.doc.choices) :
              (/\ HasMessageObject(SrcChoice(i, k))
               /\ ~SrcChoice(i, k).message.has_reasoning
               /\ SrcChoice(i, k).message.content_kind = "str"
               /\ ~HasThinkBlock(SrcChoice(i, k).message.content))
              => /\ slot[i].client.kind = "json"
                 /\ OutChoice(i, k).message = SrcChoice(i, k).message


\* Slot i has been answered from the buffered branch's input: the backend's
\* whole body arrived (no transport failure) and it is no stream.
BufferedDone(i) ==
    /\ slot[i].pc = "done"
    /\ slot[i].bresp # NoBackendResponse
    /\ ~IsStream(slot[i].bresp)

\* C11: a non-stream response whose Content-Type begins with
\* application/json and whose body does not decode as JSON is answered 502
\* with a descriptive message; the raw bytes are not forwarded.
C11_BadJsonIs502 ==
    \A i \in Slots :
        (/\ BufferedDone(i)
         /\ StartsWith(ContentTypeOf(slot[i].bresp), JsonType)
         /\ ~slot[i].bresp.valid_json)
        => /\ slot[i].client.status = 502
           /\ Len(slot[i].client.detail) > 0
           /\ slot[i].client.chunks = <<>>


\* C12: the reasoning filter is never applied to a streamed body: with the
\* policy enabled or disabled, the bytes relayed for a text/event-stream
\* response are the backend's bytes, think blocks included.
C12_StreamNeverFiltered ==
    \A i \in Slots :
        (IsStream(slot[i].bresp) /\ slot[i].pc \in {"streaming", "done"})
        => /\ slot[i].client.kind = "stream"
           /\ slot[i].pc = "done"
                => /\ Flatten(slot[i].client.chunks)
                        = Flatten(slot[i].bresp.chunks)
                   /\ HasThinkBlock(Flatten(slot[i].bresp.chunks))
                        => HasThinkBlock(Flatten(slot[i].client.chunks))

C12_Witness ==
    \E i \in Slots :
        /\ filter_reasoning
        /\ slot[i].pc = "done"
        /\ slot[i].client.kind = "stream"
        /\ HasThinkBlock(Flatten(slot[i].client.chunks))


\* ct holds text/event-stream somewhere in it.
HoldsEventStream(ct) ==
    \E a \in 0..Len(ct), b \in 0..Len(ct) :
        /\ a <= b
        /\ ct = SubSeq(ct, 1, a) \o EventStreamType \o SubSeq(ct, b + 1, Len(ct))

\* C13: a backend response goes to the streaming relay if and only if its
\* Content-Type holds the substring text/event-stream; every other response,
\* one without a Content-Type included, goes to the buffered path.
C13_StreamIffEventStream ==
    \A i \in Slots :
        (slot[i].bresp # NoBackendResponse
            /\ slot[i].pc \in {"streaming", "done"})
        => /\ slot[i].client.kind = "stream"
                <=> (slot[i].bresp.content_type.some
                       /\ HoldsEventStream(slot[i].bresp.content_type.val))
           /\ slot[i].client.kind \in {"stream", "json", "jsonstr", "error"}
           /\ slot[i].client.kind # "stream" => slot[i].pc = "done"

C13_Witness ==
    \E i \in Slots :
        /\ slot[i].bresp.content_type = Some(<<"x", ",">> \o EventStreamType)
        /\ slot[i].pc = "streaming"
        /\ slot[i].client.kind = "stream"


\* C14: the query string of the inbound request goes to the backend as it
\* came, every key and every value of a repeated key, in the same order.
C14_QueryVerbatim ==
    \A i \in Slots :
        slot[i].pc = "awaiting"
        => slot[i].outbound.params = slot[i].inbound.query


\* C15: every header of the inbound request except Host goes to the backend,
\* each value of a repeated header included, and Host does not.
C15_AllHeadersButHost ==
    \A i \in Slots :
        slot[i].pc = "awaiting"
        => /\ \A k \in 1..Len(slot[i].inbound.headers) :
                slot[i].inbound.headers[k][1] # "host"
                => \E j \in 1..Len(slot[i].outbound.headers) :
                       slot[i].outbound.headers[j] = slot[i].inbound.headers[k]
           /\ \A j \in 1..Len(slot[i].outbound.headers) :
                slot[i].outbound.headers[j][1] # "host"


\* C16: for a backend response that is neither a stream nor JSON, the body
\* the client receives is the backend's text, character for character, with
\* the filter policy on or off.
C16_TextBodyUnmodified ==
    \A i \in Slots :
        (BufferedDone(i)
            /\ ~StartsWith(ContentTypeOf(slot[i].bresp), JsonType))
        => slot[i].client.text = Flatten(slot[i].bresp.chunks)


\* The headers the backend sent, Content-Type among them.
BackendHeaders(i) ==
    slot[i].bresp.headers \cup
    (IF slot[i].bresp.content_type.some
        THEN {<<"content-type", slot[i].bresp.content_type.val>>}
        ELSE {})

\* C17: for every buffered response, JSON or not, the client response carries
\* no Content-Length of the backend and carries every other backend header
\* with its value.
C17_BufferedHeaders ==
    \A i \in Slots :
        BufferedDone(i)
        => /\ \A h \in slot[i].client.headers : h[1] # "content-length"
           /\ \A h \in BackendHeaders(i) :
                h[1] # "content-length" => h \in slot[i].client.headers


\* C18: when the credential set is not empty, a request whose Authorization
\* header is `Bearer ` followed by an empty token is rejected with 401 and
\* never reaches the backend, however api_key and api_keys made the set.
C18_EmptyTokenRejected ==
    \A i \in Slots :
        (Holds(i) /\ valid_keys # {}
            /\ HeadersGet(slot[i].inbound.headers, "authorization", EmptyStr)
                   = BearerPrefix)
        => /\ slot[i].pc = "done"
           /\ slot[i].client.status = 401
           /\ slot[i].nsent = 0


\* C19: an inbound request makes at most one outbound request, and that one
\* goes to the backend address of the proxy; a rejected request makes none,
\* and a transport failure ends the request with the one call it made.
C19_AtMostOneOutbound ==
    \A i \in Slots :
        /\ slot[i].nsent <= 1
        /\ slot[i].pc \in {"awaiting", "receiving", "streaming"}
            => slot[i].nsent = 1
        /\ slot[i].pc = "awaiting"
            => /\ StartsWith(slot[i].outbound.url, BackendUrl)
               /\ slot[i].outbound.url
                    = BackendUrl \o <<"/">> \o slot[i].inbound.path
        /\ slot[i].failed => slot[i].pc = "done" /\ slot[i].nsent = 1
        /\ slot[i].client.status = 401 => slot[i].nsent = 0

C19_Witness ==
    \E i \in Slots :
        /\ slot[i].failed
        /\ slot[i].pc = "done"
        /\ slot[i].client.status = 502
        /\ slot[i].nsent = 1


\* A decoded body the filter has nothing to do with: no object, no choices,
\* or choices that are no list.
UnexpectedBody(doc) ==
    \/ doc.kind # "obj"
    \/ ~doc.has_choices
    \/ doc.choices_kind # "list"

\* C20: with the filter policy on, a decoded JSON body of an unexpected shape
\* is relayed as it came and the request does not fail: a body that is no
\* object, has no choices, or has choices that are no list; within a list, a
\* choice that is no object or has no message object, and a content that is
\* no string.
C20_UnexpectedShapeUntouched ==
    \A i \in Slots :
        (filter_reasoning /\ BufferedDone(i) /\ slot[i].bresp.valid_json
            /\ StartsWith(ContentTypeOf(slot[i].bresp), JsonType))
        => /\ slot[i].client.kind = "json"
           /\ slot[i].client.status = slot[i].bresp.status
           /\ UnexpectedBody(slot[i].bresp.doc)
                => slot[i].client.data = slot[i].bresp.doc
           /\ ~UnexpectedBody(slot[i].bresp.doc)
                => \A k \in 1..Len(slot[i].bresp.doc.choices) :
                     /\ ~(SrcChoice(i, k).has_message
                            /\ HasMessageObject(SrcChoice(i, k)))
                          => OutChoice(i, k) = SrcChoice(i, k)
                     /\ SrcChoice(i, k).message.content_kind # "str"
                          => OutChoice(i, k).message.content
                               = SrcChoice(i, k).message.content


\* The handler raised something that is neither HTTPException nor
\* httpx.RequestError while it worked on the backend's answer to slot i.
Faulted(i) ==
    /\ BufferedDone(i)
    /\ StartsWith(ContentTypeOf(slot[i].bresp), JsonType)
    /\ \/ ~slot[i].bresp.valid_json
       \/ /\ filter_reasoning
          /\ slot[i].bresp.doc.kind = "obj"
          /\ slot[i].bresp.doc.choices_kind \in {"null", "num"}

\* C21: a fault that is neither an authentication failure nor a transport
\* failure ends its request with 500, and the proxy goes on serving: a
\* request in flight beside it or arriving after it is authenticated,
\* forwarded once, and answered with the backend's response.
C21_FaultIs500AndServing ==
    \A i \in Slots :
        /\ Faulted(i)
            => /\ slot[i].client.status = 500
               /\ slot[i].client.origin = "proxy"
        /\ (Seen500(i) \/ slot[i].after500)
            => /\ (Holds(i) /\ valid_keys # {}
                     /\ ~BearsKey(valid_keys, slot[i].inbound.headers))
                   => slot[i].client.status = 401 /\ slot[i].nsent = 0
               /\ (Holds(i)
                     /\ (valid_keys = {}
                           \/ BearsKey(valid_keys, slot[i].inbound.headers)))
                   => slot[i].pc = "awaiting" /\ slot[i].nsent = 1
               /\ (slot[i].pc = "done" /\ slot[i].bresp # NoBackendResponse
                     /\ ~Faulted(i))
                   => /\ slot[i].client.origin = "backend"
                      /\ slot[i].client.status = slot[i].bresp.status

C21_Witness ==
    \E i \in Slots, j \in Slots :
        /\ Faulted(j)
        /\ slot[j].client.status = 500
        /\ slot[i].after500
        /\ slot[i].pc = "done"
        /\ slot[i].client.origin = "backend"
        /\ slot[i].client.status = 200


\* C22: a request that arrives while another one is suspended on a stalled
\* backend call is taken in, and, once taken in, it runs to its end whether
\* or not the stalled call ever returns.
C22_StalledCallBlocksNoOne ==
    /\ [](\A i \in Slots :
            (slot[i].pc = "idle" /\ SeenWaiting(i))
            => ENABLED Proxy(i, ConcRequests))
    /\ (slot[Served].pc \in {"awaiting", "receiving", "streaming"})
          ~> (slot[Served].pc = "done")

C22_Witness ==
    \E j \in Slots \ {Served} :
        /\ slot[j].pc = "awaiting"
        /\ slot[Served].beside
        /\ slot[Served].pc = "done"
        /\ slot[Served].client.origin = "backend"


\* C23: once the client of a request is gone, the proxy reads nothing more
\* from the backend for it: the outstanding call takes no answer and no
\* further chunk of a body.
C23_NoReadForGoneClient ==
    [][\A i \in Slots :
          slot[i].gone
          => /\ slot'[i].pc = "receiving" => slot[i].pc = "receiving"
             /\ slot'[i].pc = "receiving"
                  => slot'[i].emitted = slot[i].emitted]_vars


\* C24: the think-tag filter is idempotent: the content relayed after one
\* pass holds no complete block, and a second pass would leave it as it is.
C24_FilterIdempotent ==
    \A i \in Slots :
        FilteredChat(i)
        => \A k \in 1..Len(slot[i].bresp.doc.choices) :
              (HasMessageObject(SrcChoice(i, k))
                 /\ SrcChoice(i, k).message.content_kind = "str")
              => /\ ~HasThinkBlock(OutChoice(i, k).message.content)
                 /\ WithoutThink(OutChoice(i, k).message.content)
                      = OutChoice(i, k).message.content


\* The opening tags of s that no closing tag follows.
UnclosedOpens(s) ==
    {a \in 1..Len(s) :
        /\ MatchAt(s, a, OpenTag)
        /\ \A c \in (a + Len(OpenTag))..Len(s) : ~MatchAt(s, c, CloseTag)}

EndsWith(s, tail) ==
    /\ Len(tail) <= Len(s)
    /\ SubSeq(s, Len(s) - Len(tail) + 1, Len(s)) = tail

MaskMessage(message) ==
    [message EXCEPT !.has_reasoning = FALSE, !.reasoning = "absent",
                    !.content = IF message.content_kind = "str" THEN <<>>
                                ELSE @]

MaskChoice(choice) ==
    IF HasMessageObject(choice)
        THEN [choice EXCEPT !.message = MaskMessage(@)]
        ELSE choice

MaskBody(doc) ==
    IF doc.kind = "obj" /\ doc.choices_kind = "list"
        THEN [doc EXCEPT !.choices =
                [k \in 1..Len(@) |-> MaskChoice(@[k])]]
        ELSE doc

\* C26: the JSON relayed differs from the JSON decoded in nothing but the
\* reasoning key and the string content of message objects under choices:
\* the choices, their number and order, the other keys of messages, choices
\* and body are as they came; with the filter policy off it differs in
\* nothing.
C26_FilterFrame ==
    \A i \in Slots :
        (BufferedDone(i) /\ slot[i].bresp.valid_json
            /\ StartsWith(ContentTypeOf(slot[i].bresp), JsonType))
        => /\ slot[i].client.kind = "json"
           /\ MaskBody(slot[i].client.data) = MaskBody(slot[i].bresp.doc)
           /\ ~filter_reasoning => slot[i].client.data = slot[i].bresp.doc


\* C27: whenever the backend has answered, the client receives the status of
\* the backend, on the streaming path and on both buffered paths; a status
\* of the proxy's own is 401 or that of a failed call, 502.
C27_StatusPassthrough ==
    \A i \in Slots :
        /\ (slot[i].bresp # NoBackendResponse
              /\ slot[i].pc \in {"streaming", "done"})
            => /\ slot[i].client.status = slot[i].bresp.status
               /\ slot[i].client.origin = "backend"
        /\ slot[i].client.origin = "proxy"
            => slot[i].client.status \in {401, 502}

====
